---- MODULE Spec2Model ----
(***************************************************************************)
(* Model of bandits.py: the private binary-counter noise table             *)
(* (private_counter, get_min_dex), the arm selectors (get_ucb,             *)
(* get_priv_ucb, get_priv_greedy), one bandit run (ucb_bandit_run,         *)
(* priv_bandit_run) and the bias bookkeeping of the __main__ block.        *)
(*                                                                         *)
(* Floats are modelled in fixed point: a real x is the integer x * Scale.  *)
(* Reward sums and pull counts are plain integers.  Python lists are       *)
(* sequences, so Python index i is TLA+ index i + 1; dicts keyed by        *)
(* range(K) are functions on 0 .. K-1.  Random draws (Bernoulli, Laplace)  *)
(* are nondeterministic choices.                                           *)
(***************************************************************************)
EXTENDS Integers, Sequences, FiniteSets, TLC

\* ---------------------------------------------------------------- bounds
MaxT == 3          \* largest time horizon of a single run
MaxK == 2          \* largest number of arms of a single run
MaxLen == 5        \* longest binary string handed to get_min_dex
MaxSims == 2       \* largest n_sims of a __main__ session
MainMaxT == 2      \* largest time horizon of a __main__ session
Scale == 1000      \* fixed-point resolution: 1.0 is Scale

\* ------------------------------------------------------ program constants
gap == 100         \* gap=.1, in fixed point
epsilon == 100     \* epsilon=.1, in fixed point
sensitivity == 2   \* private_counter(..., sensitivity=2)

Keywords == {"privgreed", "privucb", "other"}   \* "other": any unrecognised keyword
None == "None"

VARIABLES
    \* one run (ucb_bandit_run / priv_bandit_run)
    T, K, algo, keyword, pc, err, t, history, arm_pulls, arm_pull, noisy_means,
    \* private_counter
    priv_noises, arm_t, j, alpha_array, priv_noise, lap,
    \* get_min_dex called on its own
    binary_string, ret,
    \* __main__
    main_pc, n_sims, sim_j, cum_mu_hat, average_mu_hat, bias, priv_bias

runVars == <<pc, err, t, history, arm_pulls, arm_pull, noisy_means>>
counterVars == <<priv_noises, arm_t, j, alpha_array, priv_noise, lap>>
paramVars == <<T, K, keyword>>
dexVars == <<binary_string, ret>>
mainVars == <<main_pc, n_sims, sim_j, cum_mu_hat, average_mu_hat, bias, priv_bias>>
vars == <<T, K, algo, keyword, pc, err, t, history, arm_pulls, arm_pull, noisy_means,
          priv_noises, arm_t, j, alpha_array, priv_noise, lap,
          binary_string, ret, main_pc, n_sims, sim_j, cum_mu_hat, average_mu_hat, bias, priv_bias>>

\* ------------------------------------------------------ fixed-point helpers
Min(a, b) == IF a <= b THEN a ELSE b

\* float division a / b (b > 0), rounded toward zero
FDiv(a, b) == IF a >= 0 THEN a \div b ELSE -((-a) \div b)

\* fixed-point product
FMul(a, b) == FDiv(a * b, Scale)

RECURSIVE SumTo(_, _)
SumTo(f, n) == IF n = 0 THEN 0 ELSE f[n] + SumTo(f, n - 1)

Ln2 == (693 * Scale) \div 1000

\* np.log: natural logarithm of the fixed-point x; log(0) is -inf
RECURSIVE LnFix(_)
LnFix(x) ==
    IF x <= 0 THEN -1000 * Scale
    ELSE IF x >= 2 * Scale THEN Ln2 + LnFix(x \div 2)
    ELSE IF x < Scale THEN LnFix(2 * x) - Ln2
    ELSE LET y == ((x - Scale) * Scale) \div (x + Scale)
             y3 == FMul(FMul(y, y), y)
             y5 == FMul(FMul(y3, y), y)
         IN  2 * (y + y3 \div 3 + y5 \div 5)

RECURSIVE ISqrt(_, _, _)
ISqrt(v, lo, hi) ==
    IF lo >= hi THEN lo
    ELSE LET mid == (lo + hi + 1) \div 2
         IN  IF mid * mid <= v THEN ISqrt(v, mid, hi) ELSE ISqrt(v, lo, mid - 1)

\* np.sqrt of the fixed-point x >= 0
SqrtFix(x) == IF x <= 0 THEN 0 ELSE ISqrt(x * Scale, 0, 40000)

\* np.argmax of a list indexed 0 .. n-1: the first index attaining the maximum
ArgMax(f, n) ==
    CHOOSE i \in 0 .. n - 1 :
        /\ \A k \in 0 .. n - 1 : f[k] <= f[i]
        /\ \A k \in 0 .. i - 1 : f[k] < f[i]

\* ------------------------------------------------------------ get_min_dex
RECURSIVE MinDexFrom(_, _)
MinDexFrom(bs, ind) ==
    IF ind < Len(bs)
    THEN IF bs[ind + 1] = "1" THEN ind ELSE MinDexFrom(bs, ind + 1)
    ELSE -1

\* index of the first '1' scanning the string left to right; the loop falls
\* off the end and returns None, modelled as -1, if there is none
get_min_dex(bs) == MinDexFrom(bs, 0)

\* '{0:b}'.format(n): binary digits of n >= 1, most significant first
RECURSIVE Bin(_)
Bin(n) ==
    IF n < 2 THEN <<IF n = 1 THEN "1" ELSE "0">>
    ELSE Append(Bin(n \div 2), IF n % 2 = 1 THEN "1" ELSE "0")

\* int(np.ceil(np.log2(float(n)))): least d with 2^d >= n
RECURSIVE CeilLog2(_)
CeilLog2(n) == IF n <= 1 THEN 0 ELSE 1 + CeilLog2((n + 1) \div 2)

digits == CeilLog2(T)

\* ------------------------------------------------------------- get_means
get_means(g, k) == [i \in 0 .. k - 1 |-> (9 * Scale) \div 10 - i * g]

\* get_sample(mu): the outcomes a Bernoulli(mu) draw can produce
get_sample(mu) == IF mu <= 0 THEN {0} ELSE IF mu >= Scale THEN {1} ELSE {0, 1}

\* ---------------------------------------------------------- update_history
\* update_history without the increment of the pull count
update_history_nocount(h, index, x_it) ==
    [h EXCEPT ![index] = <<h[index][1] + x_it, h[index][2]>>]

\* history[index][0] += x_it; history[index][1] += 1.0
update_history(h, index, x_it) == [h EXCEPT ![index] = <<h[index][1] + x_it, h[index][2] + 1>>]

\* --------------------------------------------------------------- selectors
\* delta = 1.0/(1.0 + t*np.log(t)*np.log(t))
delta(tt) == (Scale * Scale) \div (Scale + tt * FMul(LnFix(tt * Scale), LnFix(tt * Scale)))

\* np.log(2/delta)
LogTwoOverDelta(d) == LnFix((2 * Scale * Scale) \div d)

\* history[i][0]/history[i][1]
EmpMean(h, a) == (h[a][1] * Scale) \div h[a][2]

get_ucb(d, h, k) ==
    LET ucb_list == [i \in 0 .. k - 1 |->
                       EmpMean(h, i) + SqrtFix(LogTwoOverDelta(d) \div (2 * h[i][2]))]
    IN  ArgMax(ucb_list, k)

\* an index one past int(history[a][1])
NoiseIndexNext(n) == n + 1

\* int(history[a][1]): the Python index into priv_noises[a]
NoiseIndex(n) == n

\* priv_noises[a][int(history[a][1])]
NoiseAt(pn, h, a) == pn[a][NoiseIndex(h[a][2]) + 1]

\* noisy_means of get_priv_ucb / get_priv_greedy
NoisyMeans(h, pn, k) ==
    [a \in 0 .. k - 1 |-> EmpMean(h, a) + FDiv(NoiseAt(pn, h, a), h[a][2])]

get_priv_greedy(d, h, pn, TT, eps, k) == ArgMax(NoisyMeans(h, pn, k), k)

get_priv_ucb(d, h, pn, TT, eps, k) ==
    LET lnT == LnFix(TT * Scale)
        gamma == FDiv(FMul(k * FMul(lnT, lnT),
                           LnFix((k * TT * lnT * Scale) \div d)) * Scale, eps)
        nm == NoisyMeans(h, pn, k)
        ucb_list == [b \in 0 .. k - 1 |->
                       nm[b] + SqrtFix(LogTwoOverDelta(d) \div (h[b][2] * 2))
                             + FDiv(gamma, h[b][2])]
    IN  ArgMax(ucb_list, k)

\* first Python exception raised while building noisy_means, or None
PrivSelectError(h, pn, k) ==
    IF \E a \in 0 .. k - 1 : h[a][2] = 0 \/ NoiseIndex(h[a][2]) + 1 > Len(pn[a])
    THEN LET a == CHOOSE x \in 0 .. k - 1 :
                     /\ h[x][2] = 0 \/ NoiseIndex(h[x][2]) + 1 > Len(pn[x])
                     /\ \A y \in 0 .. x - 1 :
                            ~(h[y][2] = 0 \/ NoiseIndex(h[y][2]) + 1 > Len(pn[y]))
         IN  IF h[a][2] = 0 THEN "ZeroDivisionError" ELSE "IndexError"
    ELSE None

\* ------------------------------------------------------------------- runs
\* a warm-start loop that stops one arm short: while t < K
WarmGuardShort(tt, k) == tt < k

\* while t <= K: the warm-start loop condition
WarmGuard(tt, k) == tt <= k

AfterWarm(tt) == IF WarmGuard(tt, K) THEN "warm" ELSE "loop"

Fail(e) == /\ pc' = "error"
           /\ err' = e

\* ucb_bandit_run lines 111-115: empty trajectory, zero history, t = 1
BeginUcb ==
    /\ pc = "begin"
    /\ algo = "ucb"
    /\ history' = [i \in 0 .. K - 1 |-> <<0, 0>>]
    /\ arm_pulls' = <<>>
    /\ t' = 1
    /\ pc' = AfterWarm(1)
    /\ UNCHANGED <<err, arm_pull, noisy_means, counterVars, paramVars, algo, dexVars, mainVars>>

\* priv_bandit_run lines 135-137 and private_counter lines 16-18
BeginPriv ==
    /\ pc = "begin"
    /\ algo = "priv"
    /\ arm_pulls' = <<>>
    /\ priv_noises' = [u \in 0 .. K - 1 |-> <<>>]
    /\ arm_t' = 0
    /\ j' = 0
    /\ alpha_array' = [l \in 1 .. digits |-> 0]
    /\ priv_noise' = [u \in 1 .. T |-> 0]
    /\ pc' = "counter"
    /\ UNCHANGED <<err, t, history, arm_pull, noisy_means, lap, paramVars, algo, dexVars, mainVars>>

LaplaceVals == {-(sensitivity * Scale), sensitivity * Scale}

\* the sum released for step jj: alpha_array[k] over the k < min(digits, len(bin_j))
\* with bin_j[k] == '1'
Released(alpha, bin_j) ==
    LET n == Min(Len(alpha), Len(bin_j))
        f == [k \in 1 .. n |-> IF bin_j[k] = "1" THEN alpha[k] ELSE 0]
    IN  SumTo(f, n)

\* one iteration of the loop over j of private_counter (lines 22-33), with the
\* per-arm set-up before its first iteration (lines 20-21) and the
\* normalisation and store after its last (lines 34-35)
CounterStep ==
    /\ pc = "counter"
    /\ ~(arm_t = K - 1 /\ j = T)
    /\ LET startNew == j = T
           tt == IF startNew THEN arm_t + 1 ELSE arm_t
           jj == IF startNew THEN 1 ELSE j + 1
           a0 == IF startNew THEN [l \in 1 .. digits |-> 0] ELSE alpha_array
           pn0 == IF startNew THEN [u \in 1 .. T |-> 0] ELSE priv_noise
           bin_j == Bin(jj)
           i == get_min_dex(bin_j)
       IN  IF i < 0 \/ i >= digits
           THEN /\ Fail(IF i < 0 THEN "TypeError" ELSE "IndexError")
                /\ arm_t' = tt
                /\ j' = jj
                /\ alpha_array' = a0
                /\ priv_noise' = pn0
                /\ UNCHANGED <<priv_noises, lap>>
           ELSE \E draw \in LaplaceVals :
                  LET a1 == [l \in 1 .. digits |->
                               IF l - 1 < i THEN 0 ELSE IF l - 1 = i THEN draw ELSE a0[l]]
                      pn1 == [pn0 EXCEPT ![jj] = Released(a1, bin_j)]
                  IN  /\ lap' = draw
                      /\ arm_t' = tt
                      /\ j' = jj
                      /\ alpha_array' = a1
                      /\ priv_noise' = pn1
                      /\ priv_noises' =
                            IF jj = T
                            THEN [priv_noises EXCEPT ![tt] = [u \in 1 .. T |-> FDiv(pn1[u], u)]]
                            ELSE priv_noises
                      /\ UNCHANGED <<pc, err>>
    /\ UNCHANGED <<t, history, arm_pulls, arm_pull, noisy_means, paramVars, algo, dexVars, mainVars>>

\* priv_bandit_run lines 138-144, once private_counter has returned
SetupPriv ==
    /\ pc = "counter"
    /\ arm_t = K - 1
    /\ j = T
    /\ history' = [i \in 0 .. K - 1 |-> <<0, 0>>]
    /\ t' = 1
    /\ pc' = AfterWarm(1)
    /\ UNCHANGED <<err, arm_pulls, arm_pull, noisy_means, counterVars, paramVars, algo, dexVars, mainVars>>

\* one iteration of the warm-start loop (lines 117-120, 146-149)
WarmStep ==
    /\ pc = "warm"
    /\ \E x \in get_sample(get_means(gap, K)[t - 1]) :
          history' = [history EXCEPT ![t - 1] = <<x, 1>>]
    /\ arm_pulls' = Append(arm_pulls, t - 1)
    /\ t' = t + 1
    /\ pc' = AfterWarm(t + 1)
    /\ UNCHANGED <<err, arm_pull, noisy_means, counterVars, paramVars, algo, dexVars, mainVars>>

\* lines 123-125: delta, the call of get_ucb, the append to arm_pulls
SelectUcb ==
    /\ pc = "loop"
    /\ t <= T
    /\ algo = "ucb"
    /\ IF \E a \in 0 .. K - 1 : history[a][2] = 0
       THEN /\ Fail("ZeroDivisionError")
            /\ UNCHANGED <<arm_pull, arm_pulls>>
       ELSE /\ arm_pull' = get_ucb(delta(t), history, K)
            /\ arm_pulls' = Append(arm_pulls, arm_pull')
            /\ pc' = "pulled"
            /\ UNCHANGED err
    /\ UNCHANGED <<t, history, noisy_means, counterVars, paramVars, algo, dexVars, mainVars>>

\* lines 152-154: delta, the call of priv_pull, the append to arm_pulls
SelectPriv ==
    /\ pc = "loop"
    /\ t <= T
    /\ algo = "priv"
    /\ IF keyword \notin {"privgreed", "privucb"}
       THEN /\ Fail("UnboundLocalError")
            /\ UNCHANGED <<arm_pull, arm_pulls, noisy_means>>
       ELSE IF PrivSelectError(history, priv_noises, K) # None
       THEN /\ Fail(PrivSelectError(history, priv_noises, K))
            /\ UNCHANGED <<arm_pull, arm_pulls, noisy_means>>
       ELSE /\ noisy_means' = NoisyMeans(history, priv_noises, K)
            /\ arm_pull' = IF keyword = "privgreed"
                           THEN get_priv_greedy(delta(t), history, priv_noises, T, epsilon, K)
                           ELSE get_priv_ucb(delta(t), history, priv_noises, T, epsilon, K)
            /\ arm_pulls' = Append(arm_pulls, arm_pull')
            /\ pc' = "pulled"
            /\ UNCHANGED err
    /\ UNCHANGED <<t, history, counterVars, paramVars, algo, dexVars, mainVars>>

\* lines 126-127, 155-156: update_history and t += 1
Update ==
    /\ pc = "pulled"
    /\ \E x \in get_sample(get_means(gap, K)[arm_pull]) :
          history' = update_history(history, arm_pull, x)
    /\ t' = t + 1
    /\ pc' = "loop"
    /\ UNCHANGED <<err, arm_pulls, arm_pull, noisy_means, counterVars, paramVars, algo, dexVars, mainVars>>

\* lines 128, 157: return [history, arm_pulls]
Return ==
    /\ pc = "loop"
    /\ t > T
    /\ pc' = "done"
    /\ UNCHANGED <<err, t, history, arm_pulls, arm_pull, noisy_means, counterVars, paramVars, algo, dexVars, mainVars>>

RunNext ==
    \/ BeginUcb
    \/ BeginPriv
    \/ CounterStep
    \/ SetupPriv
    \/ WarmStep
    \/ SelectUcb
    \/ SelectPriv
    \/ Update
    \/ Return

RunIdle ==
    /\ err = None
    /\ t = 0
    /\ history = <<>>
    /\ arm_pulls = <<>>
    /\ arm_pull = None
    /\ noisy_means = <<>>
    /\ priv_noises = <<>>
    /\ arm_t = 0
    /\ j = 0
    /\ alpha_array = <<>>
    /\ priv_noise = <<>>
    /\ lap = 0

DexIdle == binary_string = <<>> /\ ret = -2

MainIdle ==
    /\ main_pc = "off"
    /\ n_sims = 0
    /\ sim_j = 0
    /\ cum_mu_hat = <<>>
    /\ average_mu_hat = <<>>
    /\ bias = <<>>
    /\ priv_bias = <<>>

\* one call of ucb_bandit_run or priv_bandit_run
Init ==
    /\ T \in 1 .. MaxT
    /\ K \in 1 .. MaxK
    /\ \/ algo = "ucb" /\ keyword = None
       \/ algo = "priv" /\ keyword \in Keywords
    /\ pc = "begin"
    /\ RunIdle
    /\ DexIdle
    /\ MainIdle

Next == RunNext

Spec == Init /\ [][Next]_vars

\* ------------------------------------------------- get_min_dex on its own
BinaryStrings == UNION {[1 .. n -> {"0", "1"}] : n \in 0 .. MaxLen}

\* a call get_min_dex(binary_string)
CallMinDex ==
    /\ ret = -2
    /\ ret' = get_min_dex(binary_string)
    /\ UNCHANGED <<binary_string, runVars, counterVars, paramVars, algo, mainVars>>

InitDex ==
    /\ binary_string \in BinaryStrings
    /\ ret = -2
    /\ T = 1
    /\ K = 1
    /\ algo = "ucb"
    /\ keyword = None
    /\ pc = "idle"
    /\ RunIdle
    /\ MainIdle

NextDex == CallMinDex

SpecMinDex == InitDex /\ [][NextDex]_vars

\* ---------------------------------------------------------------- __main__
\* The bias bookkeeping of the script body, with map(add, a, b) returning a
\* list.  The regret curves, the binomial tests and the plots read the run
\* results but never write the state modelled here.
\* the locals of a run before it is called
RunReset ==
    /\ err' = None
    /\ t' = 0
    /\ history' = <<>>
    /\ arm_pulls' = <<>>
    /\ arm_pull' = None
    /\ noisy_means' = <<>>
    /\ priv_noises' = <<>>
    /\ arm_t' = 0
    /\ j' = 0
    /\ alpha_array' = <<>>
    /\ priv_noise' = <<>>
    /\ lap' = 0

\* mu_hat = [H_T[i][0]/H_T[i][1] for i in range(K)]
mu_hat(h, k) == [i \in 0 .. k - 1 |-> EmpMean(h, i)]

\* map(add, a, b) on two lists of length k
MapAdd(a, b, k) == [i \in 0 .. k - 1 |-> a[i] + b[i]]

\* np.multiply(1.0/n, v)
MulInv(n, v, k) == [i \in 0 .. k - 1 |-> FDiv(v[i], n)]

\* line 235: bias = map(add, average_mu_hat, np.multiply(-1.0, mus))
NonPrivBias(avg, mus, k) == [i \in 0 .. k - 1 |-> avg[i] + (-1) * mus[i]]

\* line 285: priv_bias = map(add, mus, np.multiply(-1.0, average_mu_hat))
PrivBias(avg, mus, k) == [i \in 0 .. k - 1 |-> mus[i] + (-1) * avg[i]]

\* line 222: bandit = ucb_bandit_run(time_horizon=T, gap=gap, K=K)
CallUcb ==
    /\ main_pc = "nonpriv"
    /\ pc = "idle"
    /\ sim_j < n_sims
    /\ algo' = "ucb"
    /\ pc' = "begin"
    /\ UNCHANGED <<err, t, history, arm_pulls, arm_pull, noisy_means, counterVars, paramVars,
                   dexVars, mainVars>>

\* lines 223-225: the trial's empirical means are added to cum_mu_hat
CollectUcb ==
    /\ main_pc = "nonpriv"
    /\ pc = "done"
    /\ cum_mu_hat' = MapAdd(cum_mu_hat, mu_hat(history, K), K)
    /\ sim_j' = sim_j + 1
    /\ pc' = "idle"
    /\ RunReset
    /\ UNCHANGED <<main_pc, n_sims, average_mu_hat, bias, priv_bias, paramVars, algo, dexVars>>

\* lines 233-235 and 261: the non-private bias, then the aggregates are reset
BiasUcb ==
    /\ main_pc = "nonpriv"
    /\ pc = "idle"
    /\ sim_j = n_sims
    /\ average_mu_hat' = MulInv(n_sims, cum_mu_hat, K)
    /\ bias' = NonPrivBias(average_mu_hat', get_means(gap, K), K)
    /\ cum_mu_hat' = [i \in 0 .. K - 1 |-> 0]
    /\ sim_j' = 0
    /\ main_pc' = "priv"
    /\ UNCHANGED <<n_sims, priv_bias, runVars, counterVars, paramVars, algo, dexVars>>

\* line 268: private_bandit = priv_bandit_run(time_horizon=T, ..., keyword=keyword)
CallPriv ==
    /\ main_pc = "priv"
    /\ pc = "idle"
    /\ sim_j < n_sims
    /\ algo' = "priv"
    /\ pc' = "begin"
    /\ UNCHANGED <<err, t, history, arm_pulls, arm_pull, noisy_means, counterVars, paramVars,
                   dexVars, mainVars>>

\* lines 269-271
CollectPriv ==
    /\ main_pc = "priv"
    /\ pc = "done"
    /\ cum_mu_hat' = MapAdd(cum_mu_hat, mu_hat(history, K), K)
    /\ sim_j' = sim_j + 1
    /\ pc' = "idle"
    /\ RunReset
    /\ UNCHANGED <<main_pc, n_sims, average_mu_hat, bias, priv_bias, paramVars, algo, dexVars>>

\* lines 282-285: the private bias
BiasPriv ==
    /\ main_pc = "priv"
    /\ pc = "idle"
    /\ sim_j = n_sims
    /\ average_mu_hat' = MulInv(n_sims, cum_mu_hat, K)
    /\ priv_bias' = PrivBias(average_mu_hat', get_means(gap, K), K)
    /\ main_pc' = "end"
    /\ UNCHANGED <<n_sims, sim_j, cum_mu_hat, bias, runVars, counterVars, paramVars, algo, dexVars>>

\* an exception raised inside a run propagates out of __main__
MainAbort ==
    /\ main_pc \in {"nonpriv", "priv"}
    /\ pc = "error"
    /\ main_pc' = "failed"
    /\ UNCHANGED <<n_sims, sim_j, cum_mu_hat, average_mu_hat, bias, priv_bias, runVars,
                   counterVars, paramVars, algo, dexVars>>

\* lines 204-220: the arguments are parsed and the aggregates zeroed
InitMain ==
    /\ T \in 1 .. MainMaxT
    /\ K \in 1 .. Min(T, MaxK)
    /\ keyword \in Keywords
    /\ n_sims \in 1 .. MaxSims
    /\ algo = "ucb"
    /\ pc = "idle"
    /\ RunIdle
    /\ DexIdle
    /\ main_pc = "nonpriv"
    /\ sim_j = 0
    /\ cum_mu_hat = [i \in 0 .. K - 1 |-> 0]
    /\ average_mu_hat = <<>>
    /\ bias = <<>>
    /\ priv_bias = <<>>

NextMain ==
    \/ RunNext
    \/ CallUcb
    \/ CollectUcb
    \/ BiasUcb
    \/ CallPriv
    \/ CollectPriv
    \/ BiasPriv
    \/ MainAbort

SpecMain == InitMain /\ [][NextMain]_vars

\* ------------------------------------------------------------------ claims
Arms == 0 .. K - 1

RECURSIVE SumCounts(_, _)
SumCounts(h, k) == IF k = 0 THEN 0 ELSE h[k - 1][2] + SumCounts(h, k - 1)

ValidRun == algo = "ucb" \/ keyword \in {"privgreed", "privucb"}

\* C1: for K >= 1 and T >= K a run (non-private, or private with either
\* keyword) does not fail, and when it returns the trajectory has length
\* exactly T and the pull counts of the history sum to exactly T.
C1_RunEndsWithTPulls ==
    (T >= K /\ ValidRun) =>
        /\ pc # "error"
        /\ pc = "done" => /\ Len(arm_pulls) = T
                          /\ SumCounts(history, K) = T

\* C2: the selector is never invoked before the warm-start round is over:
\* the first K entries of the trajectory are the arms 0 .. K-1 in index
\* order, and at every selector invocation every arm has pull count >= 1.
C2_WarmStartBeforeSelector ==
    /\ err # "ZeroDivisionError"
    /\ \A i \in 1 .. Min(Len(arm_pulls), K) : arm_pulls[i] = i - 1
    /\ pc \in {"loop", "pulled", "done"} => Len(arm_pulls) >= K
    /\ pc = "pulled" => /\ t > K
                        /\ \A a \in Arms : history[a][2] >= 1

C2_Witness ==
    /\ pc = "pulled"
    /\ K >= 2
    /\ Len(arm_pulls) = K + 1

C3_HistoryInv ==
    history # <<>> =>
        /\ \A a \in Arms : history[a][2] >= history[a][1] /\ history[a][1] >= 0
        /\ pc # "pulled" => SumCounts(history, K) = Len(arm_pulls)

C3_CountsNeverDecrease ==
    (history # <<>> /\ history' # <<>>) =>
        \A a \in Arms : history'[a][2] >= history[a][2]

\* C3: after each warm-start pull and after each update_history call, every
\* arm has pull count >= reward sum >= 0 and the pull counts sum to the
\* length of the trajectory; no step of a run decreases an arm's pull count.
C3_HistoryInvariants == []C3_HistoryInv /\ [][C3_CountsNeverDecrease]_vars

C3_Witness ==
    /\ pc = "loop"
    /\ \E a \in Arms : history[a][2] >= 2 /\ history[a][1] = 1
    /\ \E a \in Arms : history[a][1] = 0

\* C4: at every invocation of a private selector the correction added to the
\* empirical mean of an arm with pull count n is the noise-table entry at
\* Python index n-1 of that arm's sequence, divided by n.
C4_NoiseEntryPullsMinusOne ==
    (pc = "pulled" /\ algo = "priv") =>
        \A a \in Arms :
            noisy_means[a] = EmpMean(history, a)
                             + FDiv(priv_noises[a][(history[a][2] - 1) + 1], history[a][2])

\* C5: with a keyword that is neither "privucb" nor "privgreed" the private
\* run fails before any simulation step: no noise table is generated, no arm
\* is pulled and no result is returned.
C5_BadKeywordFailsFast ==
    (algo = "priv" /\ keyword \notin {"privgreed", "privucb"}) =>
        /\ \A u \in DOMAIN priv_noises : priv_noises[u] = <<>>
        /\ arm_pulls = <<>>
        /\ pc # "done"

C7_MinDexOf0100 ==
    (binary_string = <<"0", "1", "0", "0">> /\ ret # -2) => ret = 2

\* position of the least-significant 1-bit of n >= 1
RECURSIVE LowBit(_)
LowBit(n) == IF n % 2 = 1 THEN 0 ELSE 1 + LowBit(n \div 2)

\* whether the bit of significance 2^l is set in n
BitSet(n, l) == (n \div (2 ^ l)) % 2 = 1

\* C8: for each step j the fresh Laplace draw is stored at the level index
\* of j's least-significant 1-bit, after the levels below it are zeroed, and
\* the value released for j is the sum of the levels at j's 1-bits.
C8_DrawStoredAtLowestSetBit ==
    (pc = "counter" /\ j >= 1 /\ LowBit(j) < digits) =>
        /\ alpha_array[LowBit(j) + 1] = lap
        /\ \A l \in 0 .. LowBit(j) - 1 : alpha_array[l + 1] = 0
        /\ priv_noise[j] =
              SumTo([l \in 1 .. digits |-> IF BitSet(j, l - 1) THEN alpha_array[l] ELSE 0],
                    digits)

\* C9: for every T > 0 the level array of length digits = ceil(log2(T)) has
\* room for every bit position of every j in 1 .. T: no write to the level
\* array is out of range and no step has more bits than the array has levels.
C9_LevelArrayHasCapacity ==
    /\ ~(pc = "error" /\ err = "IndexError" /\ history = <<>>)
    /\ (pc = "counter" /\ j >= 1) => Len(Bin(j)) <= Len(alpha_array)

\* C10: in a private run every read of the noise table by a selector is in
\* bounds: at each invocation the index int(history[a][1]) is at most T-1,
\* the last index of the T entries of arm a.
C10_NoiseReadsInBounds ==
    algo = "priv" =>
        /\ ~(pc = "error" /\ err = "IndexError" /\ history # <<>>)
        /\ (pc = "loop" /\ t <= T) =>
               \A a \in Arms : /\ Len(priv_noises[a]) = T
                               /\ NoiseIndex(history[a][2]) <= T - 1

C10_Witness ==
    /\ algo = "priv"
    /\ pc = "pulled"
    /\ \E a \in Arms : NoiseIndex(history[a][2]) = T - 1

====
